---------------------------- MODULE Spec2Model ----------------------------
(***************************************************************************)
(* A model of check_location.py: the header normaliser parse_tabular, the  *)
(* two column classifiers check_pcoded and check_latlong, the archive      *)
(* resolver download_resource, the loader read_downloaded_data and the     *)
(* orchestrator check_location.                                            *)
(*                                                                         *)
(* Representation.                                                         *)
(*  - A Python string that is used as a column label is kept as the list   *)
(*    of its "||"-separated parts (what label.split("||") returns): "a" is *)
(*    <<"a">>, "a||#t" is <<"a", "#t">> and "" is <<"">>.  "||".join of a   *)
(*    list of such strings is the concatenation of the lists, and of the   *)
(*    empty list it is "" = <<"">>.                                        *)
(*  - A cell is the str() form of its value, except the missing value,     *)
(*    which is the sentinel NaN (str(NaN) is "nan").                       *)
(*  - A table (pandas DataFrame) is [columns, dtypes, rows, raised]:       *)
(*    labels, one dtype per column, the rows top to bottom, and the        *)
(*    exception that normalising it raised ("None" when it returned).      *)
(*  - Python's None / True / False are the strings "None", "True",         *)
(*    "False"; row and column positions are 1-based here and 0-based in    *)
(*    the source, hxlrow keeps the source's 0-based value.                 *)
(***************************************************************************)
EXTENDS Integers, Sequences, FiniteSets, TLC

VARIABLES
    df, fileext, parsed,            \* parse_tabular: argument, argument, result
    contents, verdict,              \* classifiers: argument, result
    resources, cursor, pcoded, latlonged, error, folder, pc, log
                                    \* check_location: dataset, locals, scratch dir

vars == <<df, fileext, parsed, contents, verdict,
          resources, cursor, pcoded, latlonged, error, folder, pc, log>>

-----------------------------------------------------------------------------
(* Bounds of the model.                                                    *)

MaxRows == 3        \* rows of an enumerated raw sample
MaxResources == 2   \* resources of a dataset
MaxSamples == 2     \* samples handed to a classifier
TallRows == 12      \* rows of the tall samples (beyond the tag scan's limit)

(* Program constants.                                                      *)

TagScanLimit == 10  \* while i < 10
DefaultDataRow == 3 \* datarow = 3
Tolerance == 5      \* (len(column) - matches) <= 5

-----------------------------------------------------------------------------
(* Python values.                                                          *)

None == "None"
NaN == "<NaN>"
NoRow == -1         \* hxlrow = None

\* str(cell): the missing value prints as "nan".
Str(cell) == IF cell = NaN THEN "nan" ELSE cell

\* isna(cell)
isna(cell) == cell = NaN

\* bool(cell) of a cell: only the empty string is falsy (float nan is truthy).
CellTruthy(cell) == cell # ""

\* bool(hxlrow): None and 0 are falsy.
RowTruthy(hxlrow) == hxlrow # NoRow /\ hxlrow # 0

\* bool(x) of a verdict or an error: None, False and "" are falsy.
Truthy(x) == x \notin {None, "False", ""}

Range(s) == {s[k] : k \in DOMAIN s}

RECURSIVE Flatten(_)
Flatten(ss) == IF ss = <<>> THEN <<>> ELSE Head(ss) \o Flatten(Tail(ss))

\* "||".join(cols), cols a list of strings each kept as its list of parts.
Join(cols) == IF cols = <<>> THEN <<"">> ELSE Flatten(cols)

\* label.split("||")
Split(label) == label

-----------------------------------------------------------------------------
(* Tests on strings.  A label is a list of parts none of which holds a      *)
(* "|", so a text without "|" starts the label when it starts the first    *)
(* part, and occurs in the label when it occurs in one of the parts.       *)

\* s.startswith(p)
StartsWith(s, p) == Len(s) >= Len(p) /\ SubSeq(s, 1, Len(p)) = p

\* p in s, on strings
Contains(s, p) ==
    \E o \in 1..(Len(s) - Len(p) + 1) : SubSeq(s, o, o + Len(p) - 1) = p

UnnamedAtoms == {"Unnamed: 0", "Unnamed: 1"}

\* re.match("Unnamed.*", c): the label starts with "Unnamed".
IsUnnamed(label) == StartsWith(label[1], "Unnamed")

\* "Unnamed" in c: the label contains "Unnamed" anywhere.
HasUnnamed(label) == \E k \in DOMAIN label : Contains(label[k], "Unnamed")

\* re.match("#.*", t): t starts with "#".
IsTag(t) == StartsWith(t, "#")

-----------------------------------------------------------------------------
(* parse_tabular                                                           *)

Min(a, b) == IF a < b THEN a ELSE b

Table(columns, dtypes, rows) ==
    [columns |-> columns, dtypes |-> dtypes, rows |-> rows, raised |-> None]

Raised(exc) ==
    [columns |-> <<>>, dtypes |-> <<>>, rows |-> <<>>, raised |-> exc]

\* The columns at positions keep (in that order), every row kept.
Project(t, keep) ==
    [columns |-> [k \in 1..Len(keep) |-> t.columns[keep[k]]],
     dtypes |-> [k \in 1..Len(keep) |-> t.dtypes[keep[k]]],
     rows |-> [r \in 1..Len(t.rows) |-> [k \in 1..Len(keep) |-> t.rows[r][keep[k]]]],
     raised |-> t.raised]

\* df.dropna(how="all", axis=0): rows whose cells are all missing go.
DropNaRows(t) ==
    LET Keep(row) == \E c \in DOMAIN row : ~isna(row[c])
    IN  [t EXCEPT !.rows = SelectSeq(t.rows, Keep)]

\* .dropna(how="all", axis=1): columns whose cells are all missing go
\* (every column of a table without rows).
DropNaCols(t) ==
    LET Keep(c) == \E r \in DOMAIN t.rows : ~isna(t.rows[r][c])
    IN  Project(t, SelectSeq([c \in 1..Len(t.columns) |-> c], Keep))

\* f"Unnamed: {i}", i the 0-based position.
UnnamedAt(c) == <<IF c = 1 THEN "Unnamed: 0" ELSE "Unnamed: 1">>

\* all([re.match("Unnamed.*", c) for c in df.columns])
AllUnnamed(t) == \A c \in DOMAIN t.columns : IsUnnamed(t.columns[c])

\* Row 0 becomes the header and is dropped; df.loc[0] of a table without
\* rows raises KeyError.
PromoteFirstRow(t) ==
    IF t.rows = <<>> THEN Raised("KeyError")
    ELSE [t EXCEPT
            !.columns = [c \in DOMAIN t.columns |->
                            IF ~isna(t.rows[1][c]) THEN <<Str(t.rows[1][c])>>
                            ELSE UnnamedAt(c)],
            !.rows = Tail(t.rows)]

\* all(df.dtypes == "object")
AllObject(t) == \A c \in DOMAIN t.dtypes : t.dtypes[c] = "object"

\* hxltags of one row: [bool(re.match("#.*", t)) if t else True
\*                      for t in df.loc[i].astype(str)]
AllTags(row) ==
    \A c \in DOMAIN row :
        LET t == Str(row[c]) IN IF t # "" THEN IsTag(t) ELSE TRUE

\* The loop's condition: while i < 10 and i < len(df) and not hxlrow.
ScanGoesOn(n, len, hxlrow) ==
    n < TagScanLimit /\ n < len /\ ~RowTruthy(hxlrow)

\* The tag-row scan; n is the source's i (0-based), hxlrow its hxlrow.
RECURSIVE HxlScan(_, _, _)
HxlScan(rows, n, hxlrow) ==
    IF ScanGoesOn(n, Len(rows), hxlrow)
    THEN HxlScan(rows, n + 1, IF AllTags(rows[n + 1]) THEN n ELSE hxlrow)
    ELSE hxlrow

\* How many columns carry the label of column c.
NDup(t, c) == Cardinality({d \in DOMAIN t.columns : t.columns[d] = t.columns[c]})

\* What "for col in df[c][:n]" iterates over: the cells of rows 0..n-1 of the
\* column, or, when the label is carried by several columns (df[c] is then a
\* DataFrame), the labels of those columns.  Cells stay atoms here, labels
\* are lists of parts.
SliceCells(t, c, n) == [r \in 1..Min(n, Len(t.rows)) |-> t.rows[r][c]]

\* [col for col in df[c][:hxlrow + 1] if col], each element as a string
\* (its list of parts).
TagHeaderCols(t, c, n) ==
    IF NDup(t, c) > 1
    THEN IF t.columns[c] = <<"">> THEN <<>>
         ELSE [k \in 1..NDup(t, c) |-> t.columns[c]]
    ELSE LET cells == SelectSeq(SliceCells(t, c, n), CellTruthy)
         IN  [k \in 1..Len(cells) |-> <<cells[k]>>]

\* "||".join raises TypeError on a missing value (a float) among the cells.
JoinRaises(t, n) ==
    \E c \in DOMAIN t.columns :
        /\ NDup(t, c) = 1
        /\ \E r \in 1..Min(n, Len(t.rows)) : isna(t.rows[r][c])

\* [str(col) for col in df[c][:datarow] if col]
CompositeHeaderCols(t, c, n) ==
    IF NDup(t, c) > 1
    THEN IF t.columns[c] = <<"">> THEN <<>>
         ELSE [k \in 1..NDup(t, c) |-> t.columns[c]]
    ELSE LET cells == SelectSeq(SliceCells(t, c, n), CellTruthy)
         IN  [k \in 1..Len(cells) |-> <<Str(cells[k])>>]

\* if "Unnamed" not in c: cols = [c] + cols;  "||".join(cols)
MergedLabel(label, cols) ==
    Join(IF ~HasUnnamed(label) THEN <<label>> \o cols ELSE cols)

\* df.drop(index=range(n)).reset_index(drop=True)
DropRows(rows, n) == SubSeq(rows, n + 1, Len(rows))

\* Lines 108-117: the tag row and the rows above it go into the labels.
MergeTagRow(t, hxlrow) ==
    IF JoinRaises(t, hxlrow + 1) THEN Raised("TypeError")
    ELSE [t EXCEPT
            !.columns = [c \in DOMAIN t.columns |->
                MergedLabel(t.columns[c], TagHeaderCols(t, c, hxlrow + 1))],
            !.rows = DropRows(t.rows, hxlrow + 1)]

\* Lines 121-125.
DataRow(t, hxlrow) ==
    LET d == IF RowTruthy(hxlrow) THEN hxlrow + 1 ELSE DefaultDataRow
    IN  IF Len(t.rows) < 3 THEN Len(t.rows) ELSE d

\* Lines 120-133: the rows before the data row go into the labels.
MergeCompositeHeader(t, hxlrow) ==
    LET datarow == DataRow(t, hxlrow)
    IN  [t EXCEPT
            !.columns = [c \in DOMAIN t.columns |->
                MergedLabel(t.columns[c], CompositeHeaderCols(t, c, datarow))],
            !.rows = DropRows(t.rows, datarow)]

\* Line 108: if hxlrow
TagRowFound(hxlrow) == RowTruthy(hxlrow)

\* Variant: the csv early return of line 118 is never taken.
AssumeCsvHeader_Never(ext, hxlrow) == FALSE

\* Line 118: if fileext == "csv" and not hxlrow
AssumeCsvHeader(ext, hxlrow) == ext = "csv" /\ ~RowTruthy(hxlrow)

\* Lines 92-96: empty rows and columns dropped, row 0 promoted when every
\* label is a placeholder.
Cleaned(t) ==
    LET d == DropNaCols(DropNaRows(t))
    IN  IF AllUnnamed(d) THEN PromoteFirstRow(d) ELSE d

\* Lines 97-133, on the cleaned table.
Reconstruct(t, ext) ==
    IF t.raised # None THEN t
    ELSE IF ~AllObject(t) THEN t
    ELSE IF Len(t.rows) = 1 THEN t
    ELSE LET hxlrow == HxlScan(t.rows, 0, NoRow)
         IN  IF TagRowFound(hxlrow) THEN MergeTagRow(t, hxlrow)
             ELSE IF AssumeCsvHeader(ext, hxlrow) THEN t
             ELSE MergeCompositeHeader(t, hxlrow)

parse_tabular(t, ext) == Reconstruct(Cleaned(t), ext)

-----------------------------------------------------------------------------
(* check_pcoded                                                            *)

\* re.match(header_exp, head, re.IGNORECASE): the part contains "cod", or
\* starts with "#adm" ("#", optional space, "adm").
PcodeHeaderPart(head) ==
    head \in {"ADM1PCODE", "#adm1+code", "#adm1+name"}

\* any([re.match(header_exp, head) for head in h.split("||")])
PcodeHeader(label) ==
    \E k \in DOMAIN Split(label) : PcodeHeaderPart(Split(label)[k])

\* column.str.match(pcode_exp, case=False): an ISO3 or ISO2 country code
\* followed by a digit, at the start of the value.
PcodeValue(v) == v \in {"KEN01", "ke12"}

\* select_dtypes(include=["string", "object"])
IsText(dtype) == dtype = "object"

\* content[h].dropna(), by position.
DropNaColumn(t, c) ==
    LET Present(v) == ~isna(v)
    IN  SelectSeq([r \in 1..Len(t.rows) |-> t.rows[r][c]], Present)

\* sum(column.str.match(...))
CountMatches(matched) == Cardinality({k \in DOMAIN matched : matched[k]})

\* Variant: the tolerance of line 157 taken strictly.
WithinTolerance_Strict(len, matches) == (len - matches) < Tolerance /\ matches > 0

\* (len(column) - matches) <= 5 and matches > 0
WithinTolerance(len, matches) == (len - matches) <= Tolerance /\ matches > 0

PcodeColumn(t, c) ==
    LET column == DropNaColumn(t, c)
    IN  WithinTolerance(Len(column),
                        CountMatches([k \in DOMAIN column |-> PcodeValue(column[k])]))

\* if pcoded: break
StopScan(found) == Truthy(found)

\* How many text columns carry the label of column c: content is what
\* select_dtypes (line 147) keeps of the sample.
NTextDup(t, c) ==
    Cardinality({d \in DOMAIN t.columns :
                    IsText(t.dtypes[d]) /\ t.columns[d] = t.columns[c]})

\* The loop over the text columns of one sample.  acc.examined lists the
\* <<sample, column>> positions whose values were counted; content[h] of a
\* label carried by several text columns is a DataFrame, whose .str raises
\* AttributeError.
RECURSIVE ScanPcodeColumns(_, _, _, _)
ScanPcodeColumns(t, key, c, acc) ==
    IF c > Len(t.columns) \/ StopScan(acc.found) \/ acc.raised # None THEN acc
    ELSE IF ~IsText(t.dtypes[c]) \/ ~PcodeHeader(t.columns[c])
         THEN ScanPcodeColumns(t, key, c + 1, acc)
    ELSE IF NTextDup(t, c) > 1 THEN [acc EXCEPT !.raised = "AttributeError"]
    ELSE ScanPcodeColumns(t, key, c + 1,
            [acc EXCEPT !.found = IF PcodeColumn(t, c) THEN "True" ELSE @,
                        !.examined = Append(@, <<key, c>>)])

RECURSIVE ScanPcodeSamples(_, _, _)
ScanPcodeSamples(samples, key, acc) ==
    IF key > Len(samples) \/ StopScan(acc.found) \/ acc.raised # None THEN acc
    ELSE ScanPcodeSamples(samples, key + 1,
                          ScanPcodeColumns(samples[key], key, 1, acc))

NoVerdict == [found |-> None, examined |-> <<>>, raised |-> None]

check_pcoded(samples) == ScanPcodeSamples(samples, 1, NoVerdict)

-----------------------------------------------------------------------------
(* check_latlong                                                           *)

\* re.match(lat_header_exp, head, re.IGNORECASE): contains "latitud", or
\* starts with "lat", "y", "point?y" or "#geo+lat".
LatHeaderPart(head) ==
    head \in {"Latitude", "latitude_longitude", "y", "#geo+lat"}

\* re.match(lon_header_exp, head, re.IGNORECASE): contains "longitud", or
\* starts with "lon", "x", "point?x" or "#geo+lon".
LonHeaderPart(head) ==
    head \in {"Longitude", "latitude_longitude", "x", "#geo+lon"}

LatHeader(label) ==
    \E k \in DOMAIN Split(label) : LatHeaderPart(Split(label)[k])

LonHeader(label) ==
    \E k \in DOMAIN Split(label) : LonHeaderPart(Split(label)[k])

\* Some pattern of hxl.geo.LAT_PATTERNS matches: a number of degrees
\* (with minutes, seconds) and an optional hemisphere N or S.
LatValue(v) == v \in {"12.5", "12.5N", "1.0"}

\* Some pattern of hxl.geo.LON_PATTERNS matches: the same with E or W.
LonValue(v) == v \in {"12.5", "30.1E", "1.0"}

\* content[h].dropna().astype(str)
StrColumn(t, c) ==
    LET column == DropNaColumn(t, c)
    IN  [k \in 1..Len(column) |-> Str(column[k])]

LatColumn(t, c) ==
    LET column == StrColumn(t, c)
    IN  WithinTolerance(Len(column),
                        CountMatches([k \in DOMAIN column |-> LatValue(column[k])]))

LonColumn(t, c) ==
    LET column == StrColumn(t, c)
    IN  WithinTolerance(Len(column),
                        CountMatches([k \in DOMAIN column |-> LonValue(column[k])]))

\* if latted and longed: latlonged = True
BothRoles(latted, longed) == Truthy(latted) /\ Truthy(longed)

\* The loop over the columns of one sample; acc carries latted and longed,
\* which are reset for every sample.
RECURSIVE ScanLatLongColumns(_, _, _, _)
ScanLatLongColumns(t, key, c, acc) ==
    IF c > Len(t.columns) \/ StopScan(acc.found) \/ acc.raised # None THEN acc
    ELSE IF ~LatHeader(t.columns[c]) /\ ~LonHeader(t.columns[c])
         THEN ScanLatLongColumns(t, key, c + 1, acc)
    ELSE IF NDup(t, c) > 1 THEN [acc EXCEPT !.raised = "AttributeError"]
    ELSE LET latted == IF LatHeader(t.columns[c]) /\ LatColumn(t, c)
                       THEN "True" ELSE acc.latted
             longed == IF LonHeader(t.columns[c]) /\ LonColumn(t, c)
                       THEN "True" ELSE acc.longed
         IN  ScanLatLongColumns(t, key, c + 1,
                [acc EXCEPT !.latted = latted,
                            !.longed = longed,
                            !.found = IF BothRoles(latted, longed)
                                      THEN "True" ELSE @,
                            !.examined = Append(@, <<key, c>>)])

\* Variant: the roles found in one sample are carried into the next.
FreshRoles_Carried(acc) == acc

\* latted = None; longed = None, at the start of every sample.
FreshRoles(acc) == [acc EXCEPT !.latted = None, !.longed = None]

RECURSIVE ScanLatLongSamples(_, _, _)
ScanLatLongSamples(samples, key, acc) ==
    IF key > Len(samples) \/ StopScan(acc.found) \/ acc.raised # None THEN acc
    ELSE ScanLatLongSamples(samples, key + 1,
            ScanLatLongColumns(samples[key], key, 1, FreshRoles(acc)))

NoLatLong ==
    [found |-> None, examined |-> <<>>, raised |-> None,
     latted |-> None, longed |-> None]

check_latlong(samples) ==
    LET acc == ScanLatLongSamples(samples, 1, NoLatLong)
    IN  [found |-> acc.found, examined |-> acc.examined, raised |-> acc.raised]

-----------------------------------------------------------------------------
(* download_resource                                                       *)
(*                                                                         *)
(* A file is [path, readable, sheets, layers]: its path as a string,       *)
(* whether the reader of its format can read it, the tables read           *)
(* from it (the sheets of a workbook, the one table of any other format)   *)
(* and, for a geodatabase or geopackage, its layers (files themselves,     *)
(* with the layer's name as path).  A resource is [name, filetype,         *)
(* downloads, zipped, unzips, file, members]: whether resource.download    *)
(* returns, whether the downloaded file is an archive (is_zipfile, or      *)
(* ".zip" in its name), whether ZipFile.extractall returns, the downloaded *)
(* file, and what glob finds in the extracted archive for the extension.   *)

File(path, readable, sheets, layers) ==
    [path |-> path, readable |-> readable, sheets |-> sheets, layers |-> layers]

\* join(a, b) of os.path: an absolute b replaces a, and no separator is
\* added after an empty a or an a that ends with one.
join(a, b) ==
    IF StartsWith(b, "/") THEN b
    ELSE IF a = "" \/ SubSeq(a, Len(a), Len(a)) = "/" THEN a \o b
    ELSE a \o "/" \o b

\* basename(resource_file): what follows the last "/" of the path.
basename(f) ==
    LET slashes == {k \in 1..Len(f.path) : SubSeq(f.path, k, k) = "/"}
        last == CHOOSE k \in slashes : \A j \in slashes : j <= k
    IN  IF slashes = {} THEN f.path
        ELSE SubSeq(f.path, last + 1, Len(f.path))

\* r in rs, on path strings: r is a substring of rs.
PathIn(r, rs) == Contains(rs, r)

\* Lines 35-37: with more than one match, a match whose path occurs in the
\* path of another match is dropped.
WithoutContainers(files) ==
    IF Len(files) > 1
    THEN LET Keep(r) ==
                 Cardinality({k \in DOMAIN files :
                                 /\ files[k].path # r.path
                                 /\ PathIn(r.path, files[k].path)}) = 0
         IN  SelectSeq(files, Keep)
    ELSE files

\* Line 41: [join(r, i) for r in resource_files for i in listlayers(r)]
RECURSIVE LayerFiles(_)
LayerFiles(files) ==
    IF files = <<>> THEN <<>>
    ELSE LET r == Head(files)
         IN  [k \in DOMAIN r.layers |->
                 File(join(r.path, r.layers[k].path), r.layers[k].readable,
                      r.layers[k].sheets, <<>>)]
             \o LayerFiles(Tail(files))

\* Lines 38-39: a workbook that unzips to no workbook is read as it is.
SpreadsheetFallback(ext, files, resource_file) ==
    IF ext = "xlsx" /\ Len(files) = 0 THEN <<resource_file>> ELSE files

\* The result's files are <<>> where the source returns None.
download_resource(resource, ext) ==
    IF ~resource.downloads
    THEN [files |-> <<>>, error |-> "Could not download file " \o resource.name]
    ELSE IF resource.zipped
    THEN IF ~resource.unzips
         THEN [files |-> <<>>, error |-> "Could not unzip resource " \o resource.name]
         ELSE LET found == SpreadsheetFallback(ext,
                               WithoutContainers(resource.members), resource.file)
              IN  [files |-> IF ext \in {"gdb", "gpkg"} THEN LayerFiles(found)
                             ELSE found,
                   error |-> None]
    ELSE [files |-> <<resource.file>>, error |-> None]

-----------------------------------------------------------------------------
(* read_downloaded_data                                                    *)

UnableToRead(f) == "Unable to read resource " \o basename(f)

\* contents[key].empty: no rows or no columns.
IsEmptySheet(t) == Len(t.rows) = 0 \/ Len(t.columns) = 0

\* data[get_uuid()] = parse_tabular(...): the normalised table t is added,
\* or, at line 63, its exception leaves the loader.
AddParsed(t, acc) ==
    IF t.raised # None THEN [acc EXCEPT !.raised = t.raised]
    ELSE [acc EXCEPT !.data = Append(@, t)]

\* Lines 60-63: every non-empty sheet is normalised and added; an exception
\* of parse_tabular is not caught here.
RECURSIVE AddSheets(_, _, _)
AddSheets(sheets, ext, acc) ==
    IF sheets = <<>> \/ acc.raised # None THEN acc
    ELSE IF IsEmptySheet(Head(sheets)) THEN AddSheets(Tail(sheets), ext, acc)
    ELSE AddSheets(Tail(sheets), ext, AddParsed(parse_tabular(Head(sheets), ext), acc))

\* Lines 64-70: read_csv and parse_tabular are inside the try, t is what
\* parse_tabular gave.
AddCaught(f, t, acc) ==
    IF t.raised # None THEN [acc EXCEPT !.error = UnableToRead(f)]
    ELSE [acc EXCEPT !.data = Append(@, t)]

AddCsv(f, acc) ==
    IF ~f.readable \/ f.sheets = <<>> THEN [acc EXCEPT !.error = UnableToRead(f)]
    ELSE AddCaught(f, parse_tabular(f.sheets[1], "csv"), acc)

\* Lines 71-86: the geo branches replace the samples read so far.
AddGeo(f, acc) ==
    IF ~f.readable \/ f.sheets = <<>> THEN [acc EXCEPT !.error = UnableToRead(f)]
    ELSE [acc EXCEPT !.data = <<f.sheets[1]>>]

ReadOne(f, ext, acc) ==
    IF ext \in {"xlsx", "xls"}
    THEN IF ~f.readable THEN [acc EXCEPT !.error = UnableToRead(f)]
         ELSE AddSheets(f.sheets, ext, acc)
    ELSE IF ext = "csv" THEN AddCsv(f, acc)
    ELSE IF ext \in {"geojson", "json", "shp", "topojson", "gdb", "gpkg"}
    THEN AddGeo(f, acc)
    ELSE acc

RECURSIVE ReadAll(_, _, _)
ReadAll(files, ext, acc) ==
    IF files = <<>> \/ acc.raised # None THEN acc
    ELSE ReadAll(Tail(files), ext, ReadOne(Head(files), ext, acc))

read_downloaded_data(files, ext) ==
    ReadAll(files, ext, [data |-> <<>>, error |-> None, raised |-> None])

-----------------------------------------------------------------------------
(* check_location: the parts of one loop iteration                         *)

AllowedFiletypes ==
    {"csv", "geodatabase", "geojson", "geopackage", "json", "shp", "topojson",
     "xls", "xlsx"}

\* Lines 220-224.
FileExt(filetype) ==
    IF filetype = "geodatabase" THEN "gdb"
    ELSE IF filetype = "geopackage" THEN "gpkg"
    ELSE filetype

\* Line 207: dataset.get_filetypes() lists the file types of the resources.
GateOpen(rs) == \E k \in DOMAIN rs : rs[k].filetype \in AllowedFiletypes

\* Variant: the loop never breaks.
ShouldBreak_Never(p) == FALSE

\* Line 216: if pcoded: break
ShouldBreak(p) == Truthy(p)

\* Line 232: if not resource_files (None or an empty list)
NoFiles(files) == Len(files) = 0

\* Line 237: if not pcoded
ShouldCheckPcoded(p) == ~Truthy(p)

\* Variant: line 239 without its file type condition.
ShouldCheckLatLong_AnyType(p, l, filetype) == ~Truthy(p) /\ ~Truthy(l)

\* Line 239.
ShouldCheckLatLong(p, l, filetype) ==
    ~Truthy(p) /\ ~Truthy(l) /\ filetype \in {"csv", "json", "xls", "xlsx"}

Event(ev, at, res) == [ev |-> ev, at |-> at, res |-> res]

\* What one step of the iteration leaves: the verdicts, the error, the
\* exception that escaped (if any) and what was done so far, in order.
Outcome(p, l, e, raised, events) ==
    [pcoded |-> p, latlonged |-> l, error |-> e, raised |-> raised,
     events |-> events]

Result(v) == IF v.raised # None THEN v.raised ELSE v.found

\* Lines 239-240, lv being what check_latlong gives for the samples.
AfterLatLong(at, out, lv) ==
    [out EXCEPT !.latlonged = IF lv.raised # None THEN @ ELSE lv.found,
                !.raised = lv.raised,
                !.events = Append(@, Event("check_latlong", at, Result(lv)))]

\* Lines 237-238, pv being what check_pcoded gives for the samples.
AfterPcoded(at, out, pv) ==
    [out EXCEPT !.pcoded = IF pv.raised # None THEN @ ELSE pv.found,
                !.raised = pv.raised,
                !.events = Append(@, Event("check_pcoded", at, Result(pv)))]

LatLongStep(filetype, at, data, out) ==
    IF out.raised = None /\ ShouldCheckLatLong(out.pcoded, out.latlonged, filetype)
    THEN AfterLatLong(at, out, check_latlong(data))
    ELSE out

PcodedStep(at, data, out) ==
    IF out.raised = None /\ ShouldCheckPcoded(out.pcoded)
    THEN AfterPcoded(at, out, check_pcoded(data))
    ELSE out

\* Lines 235-240 once the samples are read (rd): error is the read's error.
Classified(filetype, at, p, l, rd) ==
    LatLongStep(filetype, at, rd.data,
        PcodedStep(at, rd.data,
            Outcome(p, l, rd.error, rd.raised,
                    <<Event("read", at,
                            IF rd.raised # None THEN rd.raised ELSE rd.error)>>)))

\* Lines 235-240 for resource number at, whose files were resolved.
Examination(resource, at, files, p, l) ==
    Classified(resource.filetype, at, p, l,
               read_downloaded_data(files, FileExt(resource.filetype)))

-----------------------------------------------------------------------------
(* The raw samples parse_tabular is applied to: what read_csv / read_excel *)
(* return.  Their labels are unique (pandas mangles duplicates), a column  *)
(* without a header cell is "Unnamed: <position>", an empty cell is        *)
(* missing, and a column is float64 only if every cell is a number or      *)
(* missing.                                                                *)

ObjectCells == {NaN, "#t", "foo", "bar"}
FloatCells == {NaN, "1.0"}

CellsOf(dtype) == IF dtype = "float64" THEN FloatCells ELSE ObjectCells

DtypeChoices == {<<"object">>, <<"object", "object">>, <<"object", "float64">>}

LabelChoices(dts) ==
    IF Len(dts) = 1 THEN {<<<<"a">>>>, <<<<"Unnamed: 0">>>>}
    ELSE {<<x, y>> : x \in {<<"a">>, <<"Unnamed: 0">>},
                     y \in {<<"b">>, <<"Unnamed: 1">>}}

RowChoices(dts) ==
    {row \in [1..Len(dts) -> ObjectCells \cup FloatCells] :
        \A c \in 1..Len(dts) : row[c] \in CellsOf(dts[c])}

\* df is a table of at most maxRows rows over the choices above.
IsEnumSample(t, maxRows) ==
    \E dts \in DtypeChoices, r \in 0..maxRows :
        \E cols \in LabelChoices(dts), rows \in [1..r -> RowChoices(dts)] :
            t = Table(cols, dts, rows)

\* One text column of n rows with a tag row at 0-based row k (none when
\* k = n).
Tall(k, n) ==
    Table(<<<<"a">>>>, <<"object">>,
          [r \in 1..n |-> <<IF r = k + 1 THEN "#t" ELSE "foo">>])

TallSamples(n) == {Tall(k, n) : k \in 0..n}

NoTable == Table(<<>>, <<>>, <<>>)

-----------------------------------------------------------------------------
(* Values the variables of the other operations keep while one operation   *)
(* is exercised.                                                           *)

ParseIdle == df = NoTable /\ fileext = "csv" /\ parsed = NoTable
ClassifyIdle == contents = <<>> /\ verdict = NoVerdict
LocationIdle ==
    /\ resources = <<>> /\ cursor = 0
    /\ pcoded = None /\ latlonged = None /\ error = None
    /\ folder = "absent" /\ log = <<>>

parseVars == <<df, fileext, parsed>>
classifyVars == <<contents, verdict>>
locationVars == <<resources, cursor, pcoded, latlonged, error, folder, log>>

-----------------------------------------------------------------------------
(* SpecParse: parse_tabular applied to a raw sample, then to its own       *)
(* result.                                                                 *)

InitParse ==
    /\ IsEnumSample(df, MaxRows) \/ df \in TallSamples(TallRows)
    /\ fileext \in {"csv", "xlsx"}
    /\ parsed = NoTable
    /\ pc = "sample"
    /\ ClassifyIdle /\ LocationIdle

Normalize ==
    /\ pc = "sample"
    /\ parsed' = parse_tabular(df, fileext)
    /\ pc' = "parsed"
    /\ UNCHANGED <<df, fileext, classifyVars, locationVars>>

Renormalize ==
    /\ pc = "parsed"
    /\ parsed.raised = None
    /\ df' = parsed
    /\ parsed' = parse_tabular(parsed, fileext)
    /\ pc' = "reparsed"
    /\ UNCHANGED <<fileext, classifyVars, locationVars>>

NextParse == Normalize \/ Renormalize

SpecParse == InitParse /\ [][NextParse]_vars

-----------------------------------------------------------------------------
(* The normalised samples the classifiers are applied to.  A column is     *)
(* given by its label, its dtype and its values; the columns of a sample   *)
(* are padded with missing values to the same length.                      *)

Rep(v, n) == [k \in 1..n |-> v]

Max(a, b) == IF a > b THEN a ELSE b

Col(label, dtype, values) ==
    [label |-> label, dtype |-> dtype, values |-> values]

RECURSIVE MaxLen(_)
MaxLen(cols) ==
    IF cols = <<>> THEN 0 ELSE Max(Len(Head(cols).values), MaxLen(Tail(cols)))

Sample(cols) ==
    Table([c \in DOMAIN cols |-> cols[c].label],
          [c \in DOMAIN cols |-> cols[c].dtype],
          [r \in 1..MaxLen(cols) |->
              [c \in DOMAIN cols |->
                  IF r <= Len(cols[c].values) THEN cols[c].values[r] ELSE NaN]])

\* good values first, then values that match nothing: <<matches, mismatches>>
Mixes == {<<1, 0>>, <<2, Tolerance>>, <<1, Tolerance + 1>>, <<0, 1>>}

Mixed(good, mix) == Rep(good, mix[1]) \o Rep("foo", mix[2])

PcodeFirstColumns ==
    {Col(l, "object", Mixed("KEN01", mix)) :
        l \in {<<"ADM1PCODE">>, <<"Name">>, <<"Name", "#adm1+code">>},
        mix \in Mixes}
    \cup {Col(<<"ADM1PCODE">>, "object", <<NaN, "ke12">> \o Rep("foo", Tolerance)),
          Col(<<"ADM1PCODE">>, "float64", <<"1.0">>)}

PcodeSecondColumns ==
    {Col(<<"#adm1+name">>, "object", Mixed("ke12", mix)) :
        mix \in {<<1, 0>>, <<1, Tolerance + 1>>}}

PcodeSamples ==
    {Sample(<<a>>) : a \in PcodeFirstColumns}
    \cup {Sample(<<a, b>>) : a \in PcodeFirstColumns, b \in PcodeSecondColumns}

LatLongFirstColumns ==
    {Col(l, "object", Mixed("12.5", mix)) :
        l \in {<<"Latitude">>, <<"Longitude">>, <<"latitude_longitude">>,
               <<"Name">>},
        mix \in Mixes}
    \cup {Col(<<"latitude_longitude">>, "object", <<"12.5N">>),
          Col(<<"Latitude", "#geo+lat">>, "float64", <<"1.0", NaN>>)}

LatLongSecondColumns ==
    {Col(<<"x">>, "object", Mixed("30.1E", mix)) :
        mix \in {<<1, 0>>, <<1, Tolerance + 1>>}}
    \cup {Col(<<"y">>, "object", <<"12.5N">>)}

LatLongSamples ==
    {Sample(<<a>>) : a \in LatLongFirstColumns}
    \cup {Sample(<<a, b>>) : a \in LatLongFirstColumns, b \in LatLongSecondColumns}

Collections(samples) == UNION {[1..n -> samples] : n \in 1..MaxSamples}

-----------------------------------------------------------------------------
(* SpecPcode and SpecLatLong: a classifier applied to a collection of      *)
(* samples.                                                                *)

InitPcode ==
    /\ contents \in Collections(PcodeSamples)
    /\ verdict = NoVerdict
    /\ pc = "samples"
    /\ ParseIdle /\ LocationIdle

CheckPcoded ==
    /\ pc = "samples"
    /\ verdict' = check_pcoded(contents)
    /\ pc' = "pcode_checked"
    /\ UNCHANGED <<contents, parseVars, locationVars>>

SpecPcode == InitPcode /\ [][CheckPcoded]_vars

InitLatLong ==
    /\ contents \in Collections(LatLongSamples)
    /\ verdict = NoVerdict
    /\ pc = "samples"
    /\ ParseIdle /\ LocationIdle

CheckLatLong ==
    /\ pc = "samples"
    /\ verdict' = check_latlong(contents)
    /\ pc' = "latlong_checked"
    /\ UNCHANGED <<contents, parseVars, locationVars>>

SpecLatLong == InitLatLong /\ [][CheckLatLong]_vars

-----------------------------------------------------------------------------
(* Claims about the classifiers.                                           *)

\* The positions <<sample, column>> of a collection, and the scan's order.
Positions(samples) ==
    UNION {{<<k, c>> : c \in DOMAIN samples[k].columns} : k \in DOMAIN samples}

Before(p, q) == p[1] < q[1] \/ (p[1] = q[1] /\ p[2] < q[2])

\* The non-missing values of a column, by row, and those among them that
\* a value pattern matches.
PresentRows(t, c) == {r \in DOMAIN t.rows : t.rows[r][c] # NaN}

\* A text column whose header has a part matching the pcode header pattern.
PcodeCandidate(t, c) ==
    /\ t.dtypes[c] = "object"
    /\ \E k \in DOMAIN t.columns[c] : PcodeHeaderPart(t.columns[c][k])

\* ... and whose non-missing values hold a match and at most 5 mismatches.
PcodePositive(t, c) ==
    LET good == {r \in PresentRows(t, c) : PcodeValue(t.rows[r][c])}
    IN  /\ PcodeCandidate(t, c)
        /\ good # {}
        /\ Cardinality(PresentRows(t, c) \ good) <= 5

\* C7: check_pcoded is positive iff some sample has a text column with a
\* pcode header part whose non-missing values hold at least one match and at
\* most 5 mismatches; the columns whose values are counted are exactly the
\* candidate columns up to and including the first positive one (a rejected
\* candidate does not end the scan, the first positive one does).
C7_PcodeVerdict ==
    pc = "pcode_checked" =>
        LET pos == Positions(contents)
            positive == {q \in pos : PcodePositive(contents[q[1]], q[2])}
        IN  /\ verdict.raised = None
            /\ (verdict.found = "True") <=> (positive # {})
            /\ verdict.found \in {"True", None}
            /\ {verdict.examined[k] : k \in DOMAIN verdict.examined}
               = {q \in pos : /\ PcodeCandidate(contents[q[1]], q[2])
                              /\ \A p \in positive : ~Before(p, q)}
            /\ \A j, k \in DOMAIN verdict.examined :
                  j < k => Before(verdict.examined[j], verdict.examined[k])

\* A candidate column with more than 5 mismatches was counted and rejected,
\* a later column was positive, and a candidate after that one was not
\* looked at.
C7_Witness ==
    /\ pc = "pcode_checked"
    /\ verdict.found = "True"
    /\ \E j \in DOMAIN verdict.examined :
          LET q == verdict.examined[j]
              t == contents[q[1]]
          IN  /\ ~PcodePositive(t, q[2])
              /\ Cardinality({r \in PresentRows(t, q[2]) :
                                 ~PcodeValue(t.rows[r][q[2]])}) > 5
              /\ j < Len(verdict.examined)
    /\ \E q \in Positions(contents) :
          /\ PcodeCandidate(contents[q[1]], q[2])
          /\ \A j \in DOMAIN verdict.examined : verdict.examined[j] # q

\* A column with a latitude (longitude) header part whose non-missing values
\* hold a match and at most 5 mismatches.
LatPositive(t, c) ==
    LET good == {r \in PresentRows(t, c) : LatValue(t.rows[r][c])}
    IN  /\ \E k \in DOMAIN t.columns[c] : LatHeaderPart(t.columns[c][k])
        /\ good # {}
        /\ Cardinality(PresentRows(t, c) \ good) <= 5

LonPositive(t, c) ==
    LET good == {r \in PresentRows(t, c) : LonValue(t.rows[r][c])}
    IN  /\ \E k \in DOMAIN t.columns[c] : LonHeaderPart(t.columns[c][k])
        /\ good # {}
        /\ Cardinality(PresentRows(t, c) \ good) <= 5

HasLat(t) == \E c \in DOMAIN t.columns : LatPositive(t, c)
HasLon(t) == \E c \in DOMAIN t.columns : LonPositive(t, c)

\* C8: check_latlong is True exactly when one single sample holds a passing
\* latitude column and a passing longitude column (possibly the same
\* column); otherwise its result is the falsy None.  Roles passed in
\* different samples do not combine.
C8_LatLongVerdict ==
    pc = "latlong_checked" =>
        /\ verdict.raised = None
        /\ verdict.found \in {"True", None}
        /\ (verdict.found = "True") <=>
               (\E k \in DOMAIN contents : HasLat(contents[k]) /\ HasLon(contents[k]))

\* One sample passes latitude only, another passes longitude only, and the
\* result is not True.
C8_Witness ==
    /\ pc = "latlong_checked"
    /\ verdict.found # "True"
    /\ \E j, k \in DOMAIN contents :
          /\ HasLat(contents[j]) /\ ~HasLon(contents[j])
          /\ HasLon(contents[k]) /\ ~HasLat(contents[k])

-----------------------------------------------------------------------------
(* The datasets check_location is applied to.                              *)

T_plain == Table(<<<<"Name">>>>, <<"object">>, <<<<"foo">>, <<"foo">>>>)

T_pcode == Table(<<<<"ADM1PCODE">>>>, <<"object">>, Rep(<<"KEN01">>, 4))

T_latlong ==
    Table(<<<<"Latitude">>, <<"Longitude">>>>, <<"float64", "float64">>,
          <<<<"12.5", "12.5">>, <<"12.5", "12.5">>>>)

\* A tag row below a row with a missing cell.
T_tagged ==
    Table(<<<<"a">>, <<"Unnamed: 1">>>>, <<"object", "object">>,
          <<<<"foo", NaN>>, <<"#t", "#t">>, <<"foo", "foo">>>>)

T_nosheet == Table(<<<<"a">>>>, <<"object">>, <<>>)

\* resource_folder (line 211) and the directory an archive is extracted to
\* (line 27); "uuid" stands for what get_uuid() returns.
ResourceFolder == join("tmp", "uuid")
Temp == join(ResourceFolder, "uuid")

Plain(path, sheets) == File(path, TRUE, sheets, <<>>)

Res(name, filetype, downloads, zipped, unzips, file, members) ==
    [name |-> name, filetype |-> filetype, downloads |-> downloads,
     zipped |-> zipped, unzips |-> unzips, file |-> file, members |-> members]

Direct(name, filetype, readable, sheets) ==
    Res(name, filetype, TRUE, FALSE, TRUE, File(join(ResourceFolder, name), readable, sheets, <<>>), <<>>)

Zip(name, filetype, unzips, members) ==
    Res(name, filetype, TRUE, TRUE, unzips, File(join(ResourceFolder, name), FALSE, <<>>, <<>>), members)

\* A workbook is a zip archive itself: it is extracted, and holds no *.xlsx.
Workbook(name, sheets) ==
    Res(name, "xlsx", TRUE, TRUE, TRUE, File(join(ResourceFolder, name), TRUE, sheets, <<>>), <<>>)

ResourceKinds ==
    {Direct("plain.csv", "csv", TRUE, <<T_plain>>),
     Direct("pcodes.csv", "csv", TRUE, <<T_pcode>>),
     Direct("points.csv", "csv", TRUE, <<T_latlong>>),
     Direct("tagged.csv", "csv", TRUE, <<T_tagged>>),
     Direct("broken.csv", "csv", FALSE, <<>>),
     Res("gone.csv", "csv", FALSE, FALSE, TRUE, Plain(join(ResourceFolder, "gone.csv"), <<>>), <<>>),
     Zip("corrupt.zip", "csv", FALSE, <<>>),
     Zip("empty.zip", "csv", TRUE, <<>>),
     Zip("pair.zip", "csv", TRUE,
         <<Plain(join(Temp, "plain.csv"), <<T_plain>>),
           Plain(join(Temp, "pcodes.csv"), <<T_pcode>>)>>),
     Zip("nested.zip", "csv", TRUE,
         <<Plain(join(Temp, "plain.csv"), <<T_plain>>),
           Plain(join(Temp, "plain.csv.d/pcodes.csv"), <<T_pcode>>)>>),
     Workbook("book.xlsx", <<T_nosheet, T_pcode>>),
     Workbook("tagged.xlsx", <<T_tagged>>),
     Direct("old.xls", "xls", FALSE, <<>>),
     Direct("points.json", "json", TRUE, <<T_latlong>>),
     Direct("points.geojson", "geojson", TRUE, <<T_latlong>>),
     Zip("admin.gdb.zip", "geodatabase", TRUE,
         <<File(join(Temp, "admin.gdb"), TRUE, <<>>, <<>>),
           File(join(Temp, "admin.gdb/admin.gdb"), TRUE, <<>>,
                <<Plain("adm1", <<T_pcode>>), Plain("adm2", <<T_plain>>)>>)>>),
     Direct("report.pdf", "pdf", TRUE, <<>>)}

Datasets == UNION {[1..n -> ResourceKinds] : n \in 1..MaxResources}

-----------------------------------------------------------------------------
(* Spec: check_location on one dataset.  pc is "start" before the call,    *)
(* "loop" at the head of the loop over the resources, "finalize" after it, *)
(* "returned" once the call has returned and "raised" once an exception    *)
(* has left it; cursor is the number of the resource the loop is at;       *)
(* folder is the scratch directory ("absent", "present", "removed").       *)

Init ==
    /\ resources \in Datasets
    /\ cursor = 0
    /\ pcoded = None /\ latlonged = None /\ error = None
    /\ folder = "absent"
    /\ log = <<>>
    /\ pc = "start"
    /\ ParseIdle /\ ClassifyIdle

\* Lines 206-209: no allowed file type, return before the directory exists.
GateRejects ==
    /\ pc = "start"
    /\ ~GateOpen(resources)
    /\ error' = "Can't check formats"
    /\ pc' = "returned"
    /\ UNCHANGED <<resources, cursor, pcoded, latlonged, folder, log,
                   parseVars, classifyVars>>

\* Lines 211-214: mkdir(resource_folder).
GatePasses ==
    /\ pc = "start"
    /\ GateOpen(resources)
    /\ folder' = "present"
    /\ cursor' = 1
    /\ pc' = "loop"
    /\ UNCHANGED <<resources, pcoded, latlonged, error, log,
                   parseVars, classifyVars>>

AtResource == pc = "loop" /\ cursor <= Len(resources)

\* Lines 216-217.
Break ==
    /\ AtResource
    /\ ShouldBreak(pcoded)
    /\ pc' = "finalize"
    /\ UNCHANGED <<resources, cursor, pcoded, latlonged, error, folder, log,
                   parseVars, classifyVars>>

\* Lines 226-227.
SkipResource ==
    /\ AtResource
    /\ ~ShouldBreak(pcoded)
    /\ resources[cursor].filetype \notin AllowedFiletypes
    /\ cursor' = cursor + 1
    /\ UNCHANGED <<resources, pcoded, latlonged, error, folder, log, pc,
                   parseVars, classifyVars>>

\* Line 231: the files of the resource the loop is at.
Download == download_resource(resources[cursor], FileExt(resources[cursor].filetype))

Proceeds ==
    /\ AtResource
    /\ ~ShouldBreak(pcoded)
    /\ resources[cursor].filetype \in AllowedFiletypes

\* Lines 231-233: nothing to read, return at once.
ReturnWith(dl) ==
    /\ NoFiles(dl.files)
    /\ error' = dl.error
    /\ log' = Append(log, Event("download", cursor, dl.error))
    /\ pc' = "returned"
    /\ UNCHANGED <<resources, cursor, pcoded, latlonged, folder,
                   parseVars, classifyVars>>

ReturnWithoutFiles == Proceeds /\ ReturnWith(Download)

Files == Download.files

Examined(ex) ==
    /\ pcoded' = ex.pcoded
    /\ latlonged' = ex.latlonged
    /\ error' = ex.error
    /\ log' = log \o <<Event("download", cursor, None)>> \o ex.events
    /\ UNCHANGED <<resources, folder, parseVars, classifyVars>>

\* Lines 231-240: the resource is read and classified.
ExaminedAndOn(ex) ==
    /\ ex.raised = None
    /\ Examined(ex)
    /\ cursor' = cursor + 1
    /\ pc' = pc

\* Lines 231-240 when parse_tabular (line 63) or a classifier raises: the
\* exception leaves check_location.
ExaminedAndRaised(ex) ==
    /\ ex.raised # None
    /\ Examined(ex)
    /\ cursor' = cursor
    /\ pc' = "raised"

ExamineResource ==
    /\ Proceeds
    /\ ~NoFiles(Files)
    /\ ExaminedAndOn(Examination(resources[cursor], cursor, Files, pcoded, latlonged))

ExamineRaises ==
    /\ Proceeds
    /\ ~NoFiles(Files)
    /\ ExaminedAndRaised(Examination(resources[cursor], cursor, Files, pcoded, latlonged))

\* The loop has gone through every resource.
Exhausted ==
    /\ pc = "loop"
    /\ cursor > Len(resources)
    /\ pc' = "finalize"
    /\ UNCHANGED <<resources, cursor, pcoded, latlonged, error, folder, log,
                   parseVars, classifyVars>>

\* Lines 242-245.
FinalPcoded(p, e) == IF ~Truthy(e) /\ ~Truthy(p) THEN "False" ELSE p

FinalLatLonged(p, l, e) ==
    IF ~Truthy(e) /\ ~Truthy(p) /\ ~Truthy(l) THEN "False" ELSE l

\* Lines 242-249: rmtree(resource_folder) and return.
Finalize ==
    /\ pc = "finalize"
    /\ pcoded' = FinalPcoded(pcoded, error)
    /\ latlonged' = FinalLatLonged(FinalPcoded(pcoded, error), latlonged, error)
    /\ folder' = "removed"
    /\ pc' = "returned"
    /\ UNCHANGED <<resources, cursor, error, log, parseVars, classifyVars>>

Next ==
    \/ GateRejects \/ GatePasses
    \/ Break \/ SkipResource \/ ReturnWithoutFiles
    \/ ExamineResource \/ ExamineRaises
    \/ Exhausted \/ Finalize

Spec == Init /\ [][Next]_vars

-----------------------------------------------------------------------------
(* Claims about parse_tabular.                                             *)

\* An empty cell: missing, or the empty string.
EmptyCell(cell) == cell = NaN \/ cell = ""

\* Every cell of the row is empty or starts with "#".
ClaimTagRow(row) == \A c \in DOMAIN row : EmptyCell(row[c]) \/ IsTag(row[c])

\* The 0-based rows among the first ten that are tag rows.
ClaimTagRows(t) ==
    {n \in 0..(Min(10, Len(t.rows)) - 1) : ClaimTagRow(t.rows[n + 1])}

FirstOf(S) == CHOOSE n \in S : \A m \in S : n <= m

\* The label the claim gives column c for the tag row h: the human label,
\* unless it is a placeholder, then the non-empty cells of rows 0..h.
ClaimLabel(t, c, h) ==
    LET NonEmpty(cell) == ~EmptyCell(cell)
        cells == SelectSeq([r \in 1..(h + 1) |-> t.rows[r][c]], NonEmpty)
        parts == (IF IsUnnamed(t.columns[c]) THEN <<>> ELSE t.columns[c]) \o cells
    IN  IF parts = <<>> THEN <<"">> ELSE parts

\* C5: for a sample that reaches the tag-row scan (every column object-typed,
\* more than one row), with h the first of rows 0..9 whose cells are all
\* empty or "#..." (h = 0 included), each label becomes the human label
\* followed by the non-empty cells of rows 0..h, and rows 0..h are dropped.
C5_TagRowMerged ==
    pc = "parsed" =>
        LET t == Cleaned(df)
        IN  (t.raised = None /\ AllObject(t) /\ Len(t.rows) > 1
             /\ ClaimTagRows(t) # {}) =>
                LET h == FirstOf(ClaimTagRows(t))
                IN  /\ parsed.raised = None
                    /\ parsed.columns =
                           [c \in DOMAIN t.columns |-> ClaimLabel(t, c, h)]
                    /\ parsed.rows = SubSeq(t.rows, h + 2, Len(t.rows))

SameTable(a, b) ==
    /\ a.raised = None /\ b.raised = None
    /\ a.columns = b.columns /\ a.dtypes = b.dtypes /\ a.rows = b.rows

UniqueLabels(t) ==
    \A c, d \in DOMAIN t.columns : c # d => t.columns[c] # t.columns[d]

\* No row and no column of the sample is entirely missing (a sample without
\* rows has only such columns).
NothingMissing(t) ==
    /\ \A r \in DOMAIN t.rows : \E c \in DOMAIN t.columns : t.rows[r][c] # NaN
    /\ \A c \in DOMAIN t.columns : \E r \in DOMAIN t.rows : t.rows[r][c] # NaN

\* A normalised sample in the claim's sense: no entirely missing row or
\* column left to strip, unique labels, not all of them placeholders, no tag
\* row among the leading rows.
NormalizedSample(t) ==
    /\ t.raised = None
    /\ Len(t.columns) > 0
    /\ NothingMissing(t)
    /\ UniqueLabels(t)
    /\ \E c \in DOMAIN t.columns : ~IsUnnamed(t.columns[c])
    /\ ClaimTagRows(t) = {}

\* The sample takes one of the early returns of parse_tabular that hand it
\* back as it is: the csv extension, a column that is not text, a single row.
ReturnedAsIs(t, ext) == ext = "csv" \/ ~AllObject(t) \/ Len(t.rows) = 1

\* C6 as stated: parse_tabular returns every normalised sample unchanged,
\* for csv and for the other extensions, its own results included.
C6_Idempotent ==
    (pc \in {"parsed", "reparsed"} /\ NormalizedSample(df)) => SameTable(parsed, df)

\* C6, amended: a normalised sample is returned unchanged when the extension
\* is csv, or a column is not text, or there is exactly one row; any other
\* normalised sample loses its first rows (three at most) to the labels.
C6_CsvUnchanged ==
    (pc \in {"parsed", "reparsed"} /\ NormalizedSample(df)) =>
        /\ ReturnedAsIs(df, fileext) => SameTable(parsed, df)
        /\ ~ReturnedAsIs(df, fileext) =>
              /\ parsed.raised = None
              /\ parsed.rows = DropRows(df.rows, Min(DefaultDataRow, Len(df.rows)))
              /\ ~SameTable(parsed, df)

\* A normalised all-text csv sample of several rows went through the tag
\* scan and came back unchanged, the first time and the second.
C6_Witness ==
    /\ pc = "reparsed"
    /\ fileext = "csv"
    /\ NormalizedSample(df)
    /\ AllObject(df)
    /\ Len(df.rows) > 1
    /\ SameTable(parsed, df)

\* C10: the labels of every table parse_tabular returns are pairwise
\* distinct, non-empty and free of "Unnamed..." placeholders.
C10_CleanLabels ==
    (pc \in {"parsed", "reparsed"} /\ parsed.raised = None) =>
        /\ UniqueLabels(parsed)
        /\ \A c \in DOMAIN parsed.columns :
              /\ parsed.columns[c] # <<"">>
              /\ \A k \in DOMAIN parsed.columns[c] :
                    parsed.columns[c][k] \notin UnnamedAtoms

-----------------------------------------------------------------------------
(* Claims about check_location.                                            *)

Events(ev) == {k \in DOMAIN log : log[k].ev = ev}

\* C1: once a call that created the scratch directory has returned, the
\* directory is gone.
C1_ScratchRemoved ==
    (pc = "returned" /\ folder # "absent") => folder = "removed"

\* C2: a call that returns no error returns an explicit pcode verdict, and
\* with pcode False an explicit lat/long verdict.
C2_NoUnknownWithoutError ==
    (pc = "returned" /\ error = None) =>
        /\ pcoded \in {"True", "False"}
        /\ pcoded = "False" => latlonged \in {"True", "False"}

\* A download, an extraction or a read that failed.
IsFailure(e) == e.ev \in {"download", "read"} /\ e.res # None

\* C3: a failed download, extraction or read is the last thing the call
\* does, and the call returns with that failure's error string.
C3_FailureEndsCall ==
    \A k \in DOMAIN log :
        IsFailure(log[k]) =>
            /\ k = Len(log)
            /\ pc = "returned"
            /\ error = log[k].res

\* C4: the resources are gone through in listing order, none of an allowed
\* type left out, and after a positive pcode classification no later
\* resource is downloaded, read or classified and the call returns True.
C4_OrderAndEarlyExit ==
    /\ \A j, k \in DOMAIN log : j < k => log[j].at <= log[k].at
    /\ \A j, k \in Events("download") : j < k => log[j].at < log[k].at
    /\ \A n \in 1..(cursor - 1) :
          (n <= Len(resources) /\ resources[n].filetype \in AllowedFiletypes)
              => \E k \in Events("download") : log[k].at = n
    /\ \A k \in Events("check_pcoded") :
          log[k].res = "True" =>
              /\ \A j \in DOMAIN log : log[j].at <= log[k].at
              /\ pc \in {"loop", "finalize", "returned"}
              /\ pc = "returned" => pcoded = "True"

\* The first resource was found pcoded, the second, of an allowed type, was
\* never touched, and the call returned True.
C4_Witness ==
    /\ pc = "returned"
    /\ pcoded = "True"
    /\ Len(resources) = 2
    /\ resources[2].filetype \in AllowedFiletypes
    /\ \E k \in Events("check_pcoded") : log[k].at = 1 /\ log[k].res = "True"
    /\ \A k \in DOMAIN log : log[k].at = 1

\* The pcode classification of resource n did not give True.
NotPcoded(n) ==
    \A k \in Events("check_pcoded") : log[k].at = n => log[k].res # "True"

\* C9 as stated: check_latlong runs only for a resource that was not found
\* pcoded and whose samples were not loaded by the vector/geo branch.
C9_LatLongNeverOnGeo ==
    \A k \in Events("check_latlong") :
        /\ NotPcoded(log[k].at)
        /\ FileExt(resources[log[k].at].filetype) \notin
               {"geojson", "json", "shp", "topojson", "gdb", "gpkg"}

\* C9, amended: check_latlong runs only for a resource that was not found
\* pcoded and whose file type is csv, json, xls or xlsx.
C9_LatLongFiletypes ==
    \A k \in Events("check_latlong") :
        /\ NotPcoded(log[k].at)
        /\ resources[log[k].at].filetype \in {"csv", "json", "xls", "xlsx"}

\* check_latlong ran on a json resource, whose samples the geo branch read.
C9_Witness ==
    \E k \in Events("check_latlong") :
        /\ resources[log[k].at].filetype = "json"
        /\ \E j \in Events("read") : log[j].at = log[k].at /\ log[j].res = None

=============================================================================
